---- MODULE Spec2Model ----
(***************************************************************************)
(* A model of latticeconverter: the vocabulary reconciler (_map_names),    *)
(* the lattice sorter (sort_lattices), the geometry reconciler (seq2line,  *)
(* line2seq) and the MADX entry points (from_madx, to_madx).               *)
(*                                                                         *)
(* Positions and lengths are integers counted in units of 0.5e-6 m, so the *)
(* tolerance 1e-6 of seq2line is 2 units and a gap can be below, equal to  *)
(* or above it.  Lengths are even, which keeps length/2 exact.             *)
(***************************************************************************)
EXTENDS Integers, Sequences, FiniteSets, Bags, TLC

VARIABLES
    \* geometry reconciler (utils.py: seq2line, line2seq)
    sequence,       \* the argument `sequence` of seq2line: <<name, pos>> pairs
    elements,       \* the argument `elements`: name -> [type, attrs], mutated in place
    elements_before,\* `elements` as it was when seq2line was called
    s2l,            \* the locals of the seq2line call when it ended
    new_sequence,   \* what seq2line returned, None while or when it did not return
    seq_list,       \* what line2seq returned for the output of seq2line
    geom_pc,
    \* lattice sorter (utils.py: sort_lattices)
    lattices,       \* latticejson["lattices"]: name -> list of children
    root,           \* the root passed to sort_lattices
    keep_unused,
    lattices_set,   \* the working set of names not entered yet
    lattices_sorted,\* the output dict, as its <<name, children>> items in order
    call_stack,     \* the active _sort_lattices calls: [name, next child index]
    discarded,      \* how many "Discard unused lattice" warnings each name got
    sort_pc,
    \* vocabulary reconciler and MADX entry points (convert.py)
    lattice_data,   \* the parser's record; its element attributes are mutated in place
    lattice_data_before, \* the record as the parser returned it
    latticejson,    \* the LatticeJSON dict, None before the conversion returns one
    warnings,       \* the bag of warnings given to warn()
    madx,           \* the lines to_madx returned, None before it returns
    raised,         \* the exception that ended the last call, None without one
    convert_pc

geomVars == <<sequence, elements, elements_before, s2l, new_sequence, seq_list, geom_pc>>
sortVars == <<lattices, root, keep_unused, lattices_set, lattices_sorted,
              call_stack, discarded, sort_pc>>
convertVars == <<lattice_data, lattice_data_before, latticejson, warnings, madx,
                 raised, convert_pc>>
vars == <<geomVars, sortVars, convertVars>>

None == "None"

Abs(x) == IF x < 0 THEN -x ELSE x

(***************************************************************************)
(* Bounds of the geometry inputs.                                          *)
(***************************************************************************)
MaxSeqLen == 2
MaxPos == 6

ElementNames == {"A", "B", "drift_0"}
ElementTypes == {"Quadrupole", "Drift"}
ElementLengths == {0, 6}

\* utils.py:130, in units of 0.5e-6
threshold == 2

\* the counter advanced before the name is built
DriftNameNext(drift_nbr) == "drift_" \o ToString(drift_nbr + 1)

\* "drift_" + str(drift_nbr)
DriftName(drift_nbr) == "drift_" \o ToString(drift_nbr)

\* elements[name] = ['Drift', {'length': distance}]
SetItem(dict, key, value) ==
    [k \in DOMAIN dict \cup {key} |-> IF k = key THEN value ELSE dict[k]]

(***************************************************************************)
(* seq2line: one iteration of `for elem, pos in sequence`.  st holds the   *)
(* locals; st.raised is the ElementsOverlapError once it is raised;        *)
(* st.exits, st.outlens and st.gaps record elem_exit and len(elem_seq) as  *)
(* each pair found them and the distance computed for it.                  *)
(***************************************************************************)
\* np.absolute(distance) < threshold
IsAdjacent(distance) == Abs(distance) < threshold

\* the comparison made non-strict
IsOverlapOrTouch(distance) == distance <= -threshold

\* distance < -threshold
IsOverlap(distance) == distance < -threshold

\* distance > threshold
IsGap(distance) == distance > threshold

seq2line_iter(st, pair) ==
    LET elem == pair[1]
        pos == pair[2]
        elem_length == st.elements[elem].attrs.length
        elem_entrance == pos - elem_length \div 2
        distance == elem_entrance - st.elem_exit
        seen == [st EXCEPT !.processed = @ + 1,
                           !.exits = Append(@, st.elem_exit),
                           !.outlens = Append(@, Len(st.elem_seq)),
                           !.gaps = Append(@, distance)]
    IN  IF IsAdjacent(distance)
        THEN [seen EXCEPT !.elem_seq = Append(@, elem),
                          !.elem_exit = @ + elem_length]
        ELSE IF IsOverlap(distance)
        THEN [seen EXCEPT !.raised = <<elem, pos>>]
        ELSE IF IsGap(distance)
        THEN LET new_drift == DriftName(st.drift_nbr)
             IN  [seen EXCEPT
                    !.drift_nbr = @ + 1,
                    !.elements = SetItem(@, new_drift,
                                    [type |-> "Drift", attrs |-> [length |-> distance]]),
                    !.elem_seq = Append(Append(@, new_drift), elem),
                    !.elem_exit = @ + distance + elem_length]
        ELSE seen

RECURSIVE seq2line_loop(_, _, _)
seq2line_loop(st, seq, i) ==
    IF i > Len(seq) \/ st.raised # None
    THEN st
    ELSE seq2line_loop(seq2line_iter(st, seq[i]), seq, i + 1)

seq2line(seq, elems) ==
    seq2line_loop([drift_nbr |-> 0, elem_seq |-> <<>>, elem_exit |-> 0,
                   elements |-> elems, raised |-> None,
                   processed |-> 0, exits |-> <<>>, outlens |-> <<>>,
                   gaps |-> <<>>],
                  seq, 1)

(***************************************************************************)
(* line2seq                                                                *)
(***************************************************************************)
RECURSIVE line2seq_loop(_, _, _, _, _)
line2seq_loop(out, pos, seq, elems, i) ==
    IF i > Len(seq)
    THEN out
    ELSE LET elem == seq[i]
         IN  IF elems[elem].type = "Drift"
             THEN line2seq_loop(out, pos + elems[elem].attrs.length, seq, elems, i + 1)
             ELSE LET length == elems[elem].attrs.length
                  IN  line2seq_loop(Append(out, <<elem, pos + length \div 2>>),
                                    pos + length, seq, elems, i + 1)

line2seq(seq, elems) == line2seq_loop(<<>>, 0, seq, elems, 1)

(***************************************************************************)
(* The geometry specification: a seq2line call on a bounded input,         *)
(* then line2seq on what it returned.  Every element comes with a length   *)
(* attribute, without which elements[elem][1]['length'] is a KeyError.     *)
(***************************************************************************)
SeqsUpTo(S, n) == UNION {[1..k -> S] : k \in 0..n}

GeomIdle ==
    /\ sequence = <<>>
    /\ elements = <<>>
    /\ elements_before = <<>>
    /\ s2l = None
    /\ new_sequence = None
    /\ seq_list = None
    /\ geom_pc = "idle"

SortIdle ==
    /\ lattices = <<>>
    /\ root = None
    /\ keep_unused = FALSE
    /\ lattices_set = {}
    /\ lattices_sorted = <<>>
    /\ call_stack = <<>>
    /\ discarded = <<>>
    /\ sort_pc = "idle"

ConvertIdle ==
    /\ lattice_data = <<>>
    /\ lattice_data_before = <<>>
    /\ latticejson = None
    /\ warnings = <<>>
    /\ madx = None
    /\ raised = None
    /\ convert_pc = "idle"

GeomInit ==
    /\ SortIdle
    /\ ConvertIdle
    /\ sequence \in SeqsUpTo(ElementNames \X (0..MaxPos), MaxSeqLen)
    /\ elements \in [ElementNames ->
                        [type : ElementTypes, attrs : [length : ElementLengths]]]
    /\ elements_before = elements
    /\ s2l = None
    /\ new_sequence = None
    /\ seq_list = None
    /\ geom_pc = "start"

Seq2Line ==
    /\ geom_pc = "start"
    /\ s2l' = seq2line(sequence, elements)
    /\ elements' = s2l'.elements
    /\ new_sequence' = IF s2l'.raised # None THEN None ELSE s2l'.elem_seq
    /\ geom_pc' = IF s2l'.raised # None THEN "ElementsOverlapError" ELSE "line"
    /\ UNCHANGED <<sequence, elements_before, seq_list>>
    /\ UNCHANGED <<sortVars, convertVars>>

Line2Seq ==
    /\ geom_pc = "line"
    /\ seq_list' = line2seq(new_sequence, elements)
    /\ geom_pc' = "sequence"
    /\ UNCHANGED <<sequence, elements, elements_before, s2l, new_sequence>>
    /\ UNCHANGED <<sortVars, convertVars>>

GeomNext == Seq2Line \/ Line2Seq

GeomSpec == GeomInit /\ [][GeomNext]_vars

(***************************************************************************)
(* sort_lattices.  Lattices are named 1..NumLattices; a child 0 is the     *)
(* name of an element, which is no key of lattices.  The recursion of      *)
(* _sort_lattices is run one step at a time on call_stack.                 *)
(***************************************************************************)
NumLattices == 3
MaxChildRefs == 3

LatticeNames == 1..NumLattices
ChildNames == 0..NumLattices

\* The lists of n child lists that hold at most `budget` children in all.
RECURSIVE ChildLists(_, _)
ChildLists(n, budget) ==
    IF n = 0
    THEN {<<>>}
    ELSE UNION {{Append(rest, children) :
                    rest \in ChildLists(n - 1, budget - Len(children))} :
                children \in SeqsUpTo(ChildNames, budget)}

\* the lattices among the children of a lattice
LatticeChildren(name) ==
    {lattices[name][i] : i \in 1..Len(lattices[name])} \cap LatticeNames

\* the lattices reached from those of S through lattice-children
RECURSIVE ReachedFrom(_)
ReachedFrom(S) ==
    LET more == S \cup UNION {LatticeChildren(name) : name \in S}
    IN  IF more = S THEN S ELSE ReachedFrom(more)

\* a lattice that is, directly or through other lattices, its own child
OnCycle(name) == name \in ReachedFrom(LatticeChildren(name))

Acyclic == \A name \in LatticeNames : ~ OnCycle(name)

CycleReachableFromRoot == \E name \in ReachedFrom({root}) : OnCycle(name)

\* lattices_sorted[name] = lattices[name], put in front of the other items
dict_setitem_front(dict, key, value) ==
    <<(<<key, value>>)>> \o SelectSeq(dict, LAMBDA item : item[1] # key)

\* lattices_sorted[name] = lattices[name]: a new key goes last, a key the dict
\* holds keeps its place
dict_setitem(dict, key, value) ==
    IF \E i \in 1..Len(dict) : dict[i][1] = key
    THEN [i \in 1..Len(dict) |->
            IF dict[i][1] = key THEN <<key, value>> ELSE dict[i]]
    ELSE Append(dict, <<key, value>>)

\* the test made on the lattices instead of the working set
child_in_lattices(child, set) == child \in LatticeNames

\* if child in lattices_set
child_in_set(child, set) == child \in set

SortInit ==
    /\ GeomIdle
    /\ ConvertIdle
    /\ lattices \in ChildLists(NumLattices, MaxChildRefs)
    /\ root \in LatticeNames
    /\ keep_unused \in BOOLEAN
    /\ lattices_set = LatticeNames
    /\ lattices_sorted = <<>>
    /\ call_stack = <<>>
    /\ discarded = [name \in LatticeNames |-> 0]
    /\ sort_pc = "start"

\* _sort_lattices(name) is entered with the working set being `set`:
\* lattices_set.remove(name), which raises KeyError for a name the set does
\* not hold
Enter(name, set, stack, next_pc) ==
    IF name \in set
    THEN /\ lattices_set' = set \ {name}
         /\ call_stack' = Append(stack, [name |-> name, child |-> 1])
         /\ sort_pc' = next_pc
    ELSE /\ lattices_set' = set
         /\ call_stack' = stack
         /\ sort_pc' = "KeyError"

\* _sort_lattices(root if root is not None else latticejson["root"])
CallRoot ==
    /\ sort_pc = "start"
    /\ Enter(root, lattices_set, call_stack, "root")
    /\ UNCHANGED <<lattices, root, keep_unused, lattices_sorted, discarded>>
    /\ UNCHANGED <<geomVars, convertVars>>

Top == call_stack[Len(call_stack)]

Advanced == [call_stack EXCEPT ![Len(call_stack)].child = @ + 1]

\* for child in lattices[name]: if child in lattices_set: _sort_lattices(child)
Recurse ==
    /\ sort_pc \in {"root", "unused"}
    /\ call_stack # <<>>
    /\ Top.child <= Len(lattices[Top.name])
    /\ child_in_set(lattices[Top.name][Top.child], lattices_set)
    /\ Enter(lattices[Top.name][Top.child], lattices_set, Advanced, sort_pc)
    /\ UNCHANGED <<lattices, root, keep_unused, lattices_sorted, discarded>>
    /\ UNCHANGED <<geomVars, convertVars>>

\* for child in lattices[name]: the child is not in lattices_set
Skip ==
    /\ sort_pc \in {"root", "unused"}
    /\ call_stack # <<>>
    /\ Top.child <= Len(lattices[Top.name])
    /\ ~ child_in_set(lattices[Top.name][Top.child], lattices_set)
    /\ call_stack' = Advanced
    /\ UNCHANGED <<lattices, root, keep_unused, lattices_set, lattices_sorted,
                   discarded, sort_pc>>
    /\ UNCHANGED <<geomVars, convertVars>>

\* lattices_sorted[name] = lattices[name], and _sort_lattices returns
Emit ==
    /\ sort_pc \in {"root", "unused"}
    /\ call_stack # <<>>
    /\ Top.child > Len(lattices[Top.name])
    /\ lattices_sorted' = dict_setitem(lattices_sorted, Top.name, lattices[Top.name])
    /\ call_stack' = SubSeq(call_stack, 1, Len(call_stack) - 1)
    /\ UNCHANGED <<lattices, root, keep_unused, lattices_set, discarded, sort_pc>>
    /\ UNCHANGED <<geomVars, convertVars>>

\* while len(lattices_set) > 0: _sort_lattices(lattices_set.pop()).  pop()
\* takes some name out of the set, and then _sort_lattices is entered.
KeepUnused ==
    /\ sort_pc \in {"root", "unused"}
    /\ call_stack = <<>>
    /\ keep_unused
    /\ \E name \in lattices_set :
          Enter(name, lattices_set \ {name}, call_stack, "unused")
    /\ UNCHANGED <<lattices, root, keep_unused, lattices_sorted, discarded>>
    /\ UNCHANGED <<geomVars, convertVars>>

\* for lattice in lattices_set: warn(...), and return lattices_sorted
DiscardUnused ==
    /\ sort_pc = "root"
    /\ call_stack = <<>>
    /\ ~ keep_unused
    /\ discarded' = [name \in LatticeNames |->
                        IF name \in lattices_set THEN discarded[name] + 1
                        ELSE discarded[name]]
    /\ sort_pc' = "done"
    /\ UNCHANGED <<lattices, root, keep_unused, lattices_set, lattices_sorted,
                   call_stack>>
    /\ UNCHANGED <<geomVars, convertVars>>

\* the while loop ends: return lattices_sorted
ReturnSorted ==
    /\ sort_pc \in {"root", "unused"}
    /\ call_stack = <<>>
    /\ keep_unused
    /\ lattices_set = {}
    /\ sort_pc' = "done"
    /\ UNCHANGED <<lattices, root, keep_unused, lattices_set, lattices_sorted,
                   call_stack, discarded>>
    /\ UNCHANGED <<geomVars, convertVars>>

SortNext ==
    \/ CallRoot
    \/ Recurse
    \/ Skip
    \/ Emit
    \/ KeepUnused
    \/ DiscardUnused
    \/ ReturnSorted

SortSpec == SortInit /\ [][SortNext]_vars

\* The calls the termination of which is in question: a cycle is reachable
\* from root.  The interpreter runs a call on: a step that can be taken is
\* taken.
SortCyclicInit ==
    /\ GeomIdle
    /\ ConvertIdle
    /\ lattices \in ChildLists(NumLattices, MaxChildRefs)
    /\ root \in LatticeNames
    /\ \E name \in ReachedFrom({root}) : OnCycle(name)
    /\ keep_unused \in BOOLEAN
    /\ lattices_set = LatticeNames
    /\ lattices_sorted = <<>>
    /\ call_stack = <<>>
    /\ discarded = [name \in LatticeNames |-> 0]
    /\ sort_pc = "start"

SortCyclicSpec == SortCyclicInit /\ [][SortNext]_vars /\ WF_vars(SortNext)

(***************************************************************************)
(* _map_names.  The parser's record holds its elements as the items of a   *)
(* dict in insertion order: [name, type, attrs], attrs being a function    *)
(* from the foreign attribute names the element gives to their values.     *)
(***************************************************************************)
NumElements == 2

\* the element names of the parser's record
ElemName(i) == "E" \o ToString(i)

RawNames == {ElemName(i) : i \in 1..NumElements}
ForeignTypes == {"QUAD", "FOO"}
ForeignKeys == {"L", "K1", "ZZ"}
ForeignValues == {1, 2}

\* FROM_ELEGANT: foreign type and attribute names -> LatticeJSON names
FROM_ELEGANT == [QUAD |-> "Quadrupole", DRIF |-> "Drift", L |-> "length", K1 |-> "k1"]

\* FROM_MADX
FROM_MADX ==
    [QUADRUPOLE |-> "Quadrupole", DRIFT |-> "Drift", L |-> "length", K1 |-> "k1"]

\* dict.get(key, default)
Get(dict, key, default) == IF key \in DOMAIN dict THEN dict[key] ELSE default

\* dict.update(other): the values of other replace those of dict
Update(dict, other) ==
    [k \in DOMAIN dict \cup DOMAIN other |-> IF k \in DOMAIN other THEN other[k] ELSE dict[k]]

\* the item of the elements dict that has the key `name`
ItemOf(items, name) == items[CHOOSE i \in 1..Len(items) : items[i].name = name]

Names(items) == {items[i].name : i \in 1..Len(items)}

Warning(kind, about, name) == SetToBag({[kind |-> kind, about |-> about, name |-> name]})

\* attributes[latticejson_key] = value for the attributes name_map knows
MappedAttributes(other_attributes, name_map) ==
    LET known == {k \in DOMAIN other_attributes : k \in DOMAIN name_map}
    IN  [key \in {name_map[k] : k \in known} |->
            other_attributes[CHOOSE k \in known : name_map[k] = key]]

\* warn(UnknownAttributeWarning(other_key, name)) for the other attributes
RECURSIVE UnknownAttributes(_, _, _)
UnknownAttributes(keys, name_map, name) ==
    IF keys = {}
    THEN EmptyBag
    ELSE LET other_key == CHOOSE k \in keys : TRUE
             rest == UnknownAttributes(keys \ {other_key}, name_map, name)
         IN  IF other_key \in DOMAIN name_map
             THEN rest
             ELSE rest (+) Warning("UnknownAttributeWarning", other_key, name)

(***************************************************************************)
(* One iteration of `for name, (other_type, other_attributes) in           *)
(* lattice_data["elements"].items()`.  st.items are the items of the       *)
(* parser's dict, st.elements the LatticeJSON elements, st.warnings the    *)
(* warnings so far.                                                        *)
(***************************************************************************)
map_element(st, i, name_map) ==
    LET name == st.items[i].name
        declared_type == st.items[i].type
        refers == declared_type \in Names(st.items)
        other_type == IF refers THEN ItemOf(st.items, declared_type).type
                      ELSE declared_type
        other_attributes ==
            IF refers
            THEN Update(st.items[i].attrs, ItemOf(st.items, declared_type).attrs)
            ELSE st.items[i].attrs
        items == [st.items EXCEPT ![i].attrs = other_attributes]
        latticejson_type == Get(name_map, other_type, None)
    IN  IF latticejson_type = None
        THEN [items |-> items,
              elements |-> SetItem(st.elements, name,
                              [type |-> "Drift",
                               attrs |-> [length |-> Get(other_attributes, "L", 0)]]),
              warnings |-> st.warnings
                              (+) Warning("UnknownElementTypeWarning", other_type, name)]
        ELSE [items |-> items,
              elements |-> SetItem(st.elements, name,
                              [type |-> latticejson_type,
                               attrs |-> IF DOMAIN other_attributes = {}
                                         THEN [length |-> 0]
                                         ELSE MappedAttributes(other_attributes, name_map)]),
              warnings |-> st.warnings
                              (+) UnknownAttributes(DOMAIN other_attributes, name_map, name)]

RECURSIVE map_elements(_, _, _)
map_elements(st, i, name_map) ==
    IF i > Len(st.items)
    THEN st
    ELSE map_elements(map_element(st, i, name_map), i + 1, name_map)

\* _map_names(lattice_data, name_map): the locals when it returns; `root` is
\* "IndexError" where tuple(lattices.keys())[-1] finds no key
_map_names(data, name_map) ==
    LET st == map_elements([items |-> data.elements, elements |-> <<>>,
                            warnings |-> EmptyBag], 1, name_map)
    IN  [items |-> st.items,
         warnings |-> st.warnings,
         result |-> [title |-> Get(data, "title", ""),
                     root |-> IF "root" \in DOMAIN data THEN data.root
                              ELSE IF data.lattices = <<>> THEN "IndexError"
                              ELSE data.lattices[Len(data.lattices)][1],
                     elements |-> st.elements,
                     lattices |-> data.lattices,
                     commands |-> data.commands]]

PartialFunctions(D, R) == UNION {[dom -> R] : dom \in SUBSET D}

RawElements ==
    {items \in [1..NumElements ->
                    [name : RawNames, type : ForeignTypes \cup RawNames,
                     attrs : PartialFunctions(ForeignKeys, ForeignValues)]] :
        \A i \in 1..NumElements : items[i].name = ElemName(i)}

\* the lattices of a record, as the items of the dict: name, children
RawLattices ==
    {<<>>,
     <<(<<"CELL", <<"E1", "E2">>>>)>>,
     <<(<<"CELL", <<"E1", "E2">>>>), (<<"RING", <<"CELL", "CELL">>>>)>>}

MapInit ==
    /\ GeomIdle
    /\ SortIdle
    /\ \E items \in RawElements, lats \in RawLattices :
          lattice_data \in
              {[elements |-> items, lattices |-> lats, commands |-> <<>>],
               [elements |-> items, lattices |-> lats, commands |-> <<>>,
                root |-> "CELL", title |-> "ring"]}
    /\ lattice_data_before = lattice_data
    /\ latticejson = None
    /\ warnings = EmptyBag
    /\ madx = None
    /\ raised = None
    /\ convert_pc = "start"

\* from_elegant: _map_names(parse_elegant(string), FROM_ELEGANT)
FromElegant ==
    /\ convert_pc = "start"
    /\ LET call == _map_names(lattice_data, FROM_ELEGANT)
       IN  /\ lattice_data' = [lattice_data EXCEPT !.elements = call.items]
           /\ warnings' = warnings (+) call.warnings
           /\ IF call.result.root = "IndexError"
              THEN /\ raised' = "IndexError"
                   /\ latticejson' = None
              ELSE /\ raised' = None
                   /\ latticejson' = call.result
    /\ convert_pc' = "converted"
    /\ UNCHANGED <<lattice_data_before, madx>>
    /\ UNCHANGED <<geomVars, sortVars>>

MapNext == FromElegant

MapSpec == MapInit /\ [][MapNext]_vars

(***************************************************************************)
(* sort_lattices as to_madx calls it (keep_unused=False), as a function of *)
(* its arguments.  lats maps each lattice name to its children; st holds   *)
(* lattices_set and lattices_sorted.                                       *)
(***************************************************************************)
RECURSIVE _sort_lattices(_, _, _, _)
_sort_lattices(name, i, st, lats) ==
    IF i > Len(lats[name])
    THEN [st EXCEPT !.lattices_sorted = dict_setitem(@, name, lats[name])]
    ELSE LET child == lats[name][i]
         IN  IF child_in_set(child, st.lattices_set)
             THEN _sort_lattices(name, i + 1,
                      _sort_lattices(child, 1,
                          [st EXCEPT !.lattices_set = @ \ {child}], lats),
                      lats)
             ELSE _sort_lattices(name, i + 1, st, lats)

sort_lattices(lats, start) ==
    _sort_lattices(start, 1,
        [lattices_set |-> DOMAIN lats \ {start}, lattices_sorted |-> <<>>], lats)

(***************************************************************************)
(* from_madx and to_madx.                                                  *)
(***************************************************************************)
\* TO_MADX: LatticeJSON names -> the first MADX name of each
TO_MADX == [Quadrupole |-> "QUADRUPOLE", Drift |-> "DRIFT", length |-> "L", k1 |-> "K1"]

Min(a, b) == IF a < b THEN a ELSE b

RECURSIVE MinLen(_)
MinLen(rows) ==
    IF Len(rows) = 1 THEN Len(rows[1])
    ELSE Min(Len(rows[1]), MinLen(Tail(rows)))

\* list(zip(*rows)): the columns of the rows, none for no rows
Zip(rows) ==
    IF rows = <<>>
    THEN <<>>
    ELSE [j \in 1..MinLen(rows) |-> [i \in 1..Len(rows) |-> rows[i][j]]]

Range(f) == {f[x] : x \in DOMAIN f}

\* the dict the items of which are given
Dict(items) ==
    [key \in {items[i][1] : i \in 1..Len(items)} |->
        items[CHOOSE i \in 1..Len(items) : items[i][1] = key][2]]

\* lattices[key] = value on the items of the dict
SetValue(items, key, value) ==
    [i \in 1..Len(items) |-> IF items[i][1] = key THEN <<key, value>> ELSE items[i]]

SequenceCommand == <<"sequence", "RING", <<(<<"L", 12>>)>>>>
UseCommand == <<"use", "RING", <<>>>>

MadxElements ==
    {items \in [1..2 -> [name : {"A", "B"}, type : {"QUADRUPOLE", "FOO"},
                         attrs : [L : ElementLengths]]] :
        items[1].name = "A" /\ items[2].name = "B"}

\* what parse_madx returns for a sequence file
SequenceFiles ==
    {[elements |-> items,
      lattices |-> <<(<<"RING", seq>>)>>,
      commands |-> commands] :
        items \in MadxElements,
        seq \in SeqsUpTo({"A", "B"} \X (0..MaxPos), MaxSeqLen),
        commands \in {<<SequenceCommand>>, <<SequenceCommand, UseCommand>>,
                      <<UseCommand, SequenceCommand>>}}

\* what parse_madx returns for a file of lines
LineFiles ==
    {[elements |-> items, lattices |-> lats, commands |-> commands] :
        items \in MadxElements,
        lats \in {<<(<<"RING", <<"A", "B">>>>)>>,
                  <<(<<"CELL", <<"A", "B">>>>), (<<"RING", <<"CELL", "CELL">>>>)>>,
                  <<(<<"SPARE", <<"B">>>>), (<<"CELL", <<"A", "B">>>>),
                    (<<"RING", <<"CELL", "A", "CELL">>>>)>>},
        commands \in {<<>>, <<UseCommand>>}}

MadxInit ==
    /\ GeomIdle
    /\ SortIdle
    /\ \/ lattice_data \in SequenceFiles
       \/ lattice_data \in LineFiles
    /\ lattice_data_before = lattice_data
    /\ latticejson = None
    /\ warnings = EmptyBag
    /\ madx = None
    /\ raised = None
    /\ convert_pc = "start"

\* from_madx
FromMadx ==
    /\ convert_pc = "start"
    /\ convert_pc' = "converted"
    /\ LET call == _map_names(lattice_data, FROM_MADX)
           commands == call.result.commands
       IN  /\ warnings' = warnings (+) call.warnings
           /\ IF Zip(commands) = <<>>
              THEN \* list(zip(*commands))[0]
                   /\ raised' = "IndexError"
                   /\ latticejson' = None
                   /\ lattice_data' = [lattice_data EXCEPT !.elements = call.items]
                   /\ UNCHANGED geomVars
              ELSE IF "sequence" \in Range(Zip(commands)[1])
              THEN LET name == Zip(commands)[2][1]
                       run == seq2line(Dict(call.result.lattices)[name],
                                       call.result.elements)
                   IN  /\ sequence' = Dict(call.result.lattices)[name]
                       /\ elements_before' = call.result.elements
                       /\ elements' = run.elements
                       /\ s2l' = run
                       /\ seq_list' = seq_list
                       /\ IF run.raised # None
                          THEN /\ geom_pc' = "ElementsOverlapError"
                               /\ raised' = "ElementsOverlapError"
                               /\ new_sequence' = None
                               /\ latticejson' = None
                               /\ lattice_data' =
                                     [lattice_data EXCEPT !.elements = call.items]
                          ELSE /\ geom_pc' = "line"
                               /\ raised' = None
                               /\ new_sequence' = run.elem_seq
                               /\ latticejson' =
                                     [call.result EXCEPT
                                        !.elements = run.elements,
                                        !.lattices = SetValue(@, name, run.elem_seq)]
                               /\ lattice_data' =
                                     [lattice_data EXCEPT
                                        !.elements = call.items,
                                        !.lattices = SetValue(@, name, run.elem_seq)]
              ELSE /\ raised' = None
                   /\ latticejson' = call.result
                   /\ lattice_data' = [lattice_data EXCEPT !.elements = call.items]
                   /\ UNCHANGED geomVars
    /\ UNCHANGED <<lattice_data_before, madx>>
    /\ UNCHANGED sortVars

\* "{}: {}, {};" for every element; the order of the dict is not kept
ElementLines(elems) ==
    {<<name, TO_MADX[elems[name].type],
       {<<TO_MADX[k], elems[name].attrs[k]>> : k \in DOMAIN elems[name].attrs}>> :
        name \in DOMAIN elems}

\* "{}: line=({});" and "USE, SEQUENCE={};" for every item of the sorted dict
RECURSIVE LatticeLines(_, _)
LatticeLines(sorted, start) ==
    IF sorted = <<>>
    THEN <<>>
    ELSE <<(<<"line", sorted[1][1], sorted[1][2]>>), (<<"USE", start>>)>>
            \o LatticeLines(Tail(sorted), start)

\* "{}, at = {};" for every pair line2seq returns
AtLines(pairs) == [i \in 1..Len(pairs) |-> <<"at", pairs[i][1], pairs[i][2]>>]

\* to_madx on the dict from_madx returned
ToMadx ==
    /\ convert_pc = "converted"
    /\ raised = None
    /\ convert_pc' = "emitted"
    /\ LET elems == latticejson.elements
           lats == Dict(latticejson.lattices)
           commands == latticejson.commands
       IN  IF Zip(commands) = <<>>
           THEN \* list(zip(*commands))[0]
                /\ raised' = "IndexError"
                /\ UNCHANGED <<madx, warnings, seq_list>>
           ELSE IF "sequence" \in Range(Zip(commands)[1])
           THEN IF \/ latticejson.root \notin DOMAIN lats
                   \/ \E child \in Range(lats[latticejson.root]) :
                         child \notin DOMAIN elems
                THEN /\ raised' = "KeyError"
                     /\ UNCHANGED <<madx, warnings, seq_list>>
                ELSE /\ seq_list' = line2seq(lats[latticejson.root], elems)
                     /\ madx' = [elements |-> ElementLines(elems),
                                 lines |-> <<(<<"SEQUENCE", commands[1][2], commands[1][3]>>)>>
                                             \o AtLines(seq_list')
                                             \o <<(<<"ENDSEQUENCE">>)>>]
                     /\ UNCHANGED <<raised, warnings>>
           ELSE IF latticejson.root \notin DOMAIN lats
           THEN /\ raised' = "KeyError"
                /\ UNCHANGED <<madx, warnings, seq_list>>
           ELSE LET sorted == sort_lattices(lats, latticejson.root)
                IN  /\ madx' = [elements |-> ElementLines(elems),
                                lines |-> <<(<<"TITLE", latticejson.title>>)>>
                                            \o LatticeLines(sorted.lattices_sorted,
                                                            latticejson.root)]
                    /\ warnings' = warnings (+) SetToBag(
                            {[kind |-> "UserWarning", about |-> "Discard unused lattice",
                              name |-> name] : name \in sorted.lattices_set})
                    /\ UNCHANGED <<raised, seq_list>>
    /\ UNCHANGED <<lattice_data, lattice_data_before, latticejson>>
    /\ UNCHANGED <<sequence, elements, elements_before, s2l, new_sequence, geom_pc>>
    /\ UNCHANGED sortVars

MadxNext == FromMadx \/ ToMadx

MadxSpec == MadxInit /\ [][MadxNext]_vars

(***************************************************************************)
(* Properties of the vocabulary reconciler.                                *)
(***************************************************************************)
Reconciled == convert_pc = "converted" /\ raised = None

RawItem(i) == lattice_data_before.elements[i]

\* element i declares as its type the name of another declared element
IsAlias(i) == RawItem(i).type \in RawNames \ {RawItem(i).name}

Referenced(i) == ItemOf(lattice_data_before.elements, RawItem(i).type)

\* the foreign type element i resolves to
ResolvedType(i) == IF IsAlias(i) THEN Referenced(i).type ELSE RawItem(i).type

WarningsAbout(kind, name) ==
    {w \in BagToSet(warnings) : w.kind = kind /\ w.name = name}

\* C1: where element E declares as its type the name of another declared
\* element R, every foreign attribute that E and R both give and that is
\* carried into the canonical E carries E's own value.
C1_OwnAttributesWin ==
    Reconciled =>
        \A i \in 1..NumElements :
            IsAlias(i) =>
                \A key \in DOMAIN RawItem(i).attrs \cap DOMAIN Referenced(i).attrs :
                    LET canonical == latticejson.elements[RawItem(i).name]
                    IN  IF ResolvedType(i) \in DOMAIN FROM_ELEGANT
                        THEN key \in DOMAIN FROM_ELEGANT =>
                                canonical.attrs[FROM_ELEGANT[key]] = RawItem(i).attrs[key]
                        ELSE key = "L" => canonical.attrs.length = RawItem(i).attrs[key]

\* the length C7 gives the fallback Drift: the element's L, its own before
\* the L of the element it refers to, and 0 without one
FallbackLength(i) ==
    IF "L" \in DOMAIN RawItem(i).attrs THEN RawItem(i).attrs["L"]
    ELSE IF IsAlias(i) THEN Get(Referenced(i).attrs, "L", 0)
    ELSE 0

\* C7: an element whose resolved foreign type the table does not know
\* becomes ["Drift", {"length": v}], v its attribute L or 0, with exactly one
\* UnknownElementType warning and no warning about its attributes, and
\* every element of the record is converted.
C7_UnknownTypeFallsBack ==
    Reconciled =>
        /\ DOMAIN latticejson.elements = RawNames
        /\ \A i \in 1..NumElements :
              ResolvedType(i) \notin DOMAIN FROM_ELEGANT =>
                  /\ latticejson.elements[RawItem(i).name] =
                        [type |-> "Drift", attrs |-> [length |-> FallbackLength(i)]]
                  /\ \E w \in WarningsAbout("UnknownElementTypeWarning", RawItem(i).name) :
                        /\ WarningsAbout("UnknownElementTypeWarning", RawItem(i).name) = {w}
                        /\ CopiesIn(w, warnings) = 1
                  /\ WarningsAbout("UnknownAttributeWarning", RawItem(i).name) = {}

(***************************************************************************)
(* Properties of the MADX entry points.                                    *)
(***************************************************************************)
\* C8: when seq2line fails with ElementsOverlap, the elements mapping of the
\* canonical lattice is as it was before the call, without a synthetic drift
\* of the aborted call, and no lattices entry is rewritten.
C8_NoPartialOutput ==
    (convert_pc = "converted" /\ raised = "ElementsOverlapError") =>
        /\ elements = elements_before
        /\ lattice_data.lattices = lattice_data_before.lattices

\* the commands the parser gave hold no sequence directive
NoSequenceDirective ==
    \A i \in 1..Len(lattice_data_before.commands) :
        lattice_data_before.commands[i][1] # "sequence"

\* C9: without a sequence directive in commands, an empty commands list
\* included, from_madx returns the reconciled lattice without calling
\* seq2line, and to_madx renders one line definition per item of
\* sort_lattices' output, in its order, without failing.
C9_LinePath ==
    (convert_pc # "start" /\ NoSequenceDirective) =>
        /\ raised = None
        /\ geom_pc = "idle"
        /\ latticejson.lattices = lattice_data_before.lattices
        /\ convert_pc = "emitted" =>
              LET sorted == sort_lattices(Dict(latticejson.lattices),
                                          latticejson.root).lattices_sorted
              IN  SelectSeq(madx.lines, LAMBDA line : line[1] = "line")
                      = [i \in 1..Len(sorted) |-> <<"line", sorted[i][1], sorted[i][2]>>]

(***************************************************************************)
(* Properties of the lattice sorter.                                       *)
(***************************************************************************)
SortedKeys == {lattices_sorted[i][1] : i \in 1..Len(lattices_sorted)}

\* the places a name holds in the output
PlacesOf(name) == {i \in 1..Len(lattices_sorted) : lattices_sorted[i][1] = name}

\* The recursion run step by step returns what sort_lattices, as to_madx
\* calls it, evaluates to.
SortAgrees ==
    (sort_pc = "done" /\ ~ keep_unused) =>
        LET sorted == sort_lattices(lattices, root)
        IN  /\ lattices_sorted = sorted.lattices_sorted
            /\ lattices_set = sorted.lattices_set

\* C2: for an acyclic lattices mapping the output never places a lattice
\* before a lattice it references as a child, with keep_unused false or true.
C2_ChildrenFirst ==
    (sort_pc = "done" /\ Acyclic) =>
        \A parent \in SortedKeys : \A child \in LatticeChildren(parent) \cap SortedKeys :
            \A p \in PlacesOf(parent) : \A c \in PlacesOf(child) : c < p

\* C2 witness: an acyclic mapping sorted, all of it in the output, with a
\* lattice that is the child of two others.
C2_Witness ==
    /\ sort_pc = "done"
    /\ Acyclic
    /\ Len(lattices_sorted) = NumLattices
    /\ NumLattices >= 3
    /\ \E child \in LatticeNames :
          Cardinality({parent \in LatticeNames : child \in LatticeChildren(parent)}) >= 2

\* C3: with keep_unused false the output keys are the lattices reachable
\* from root and every other key got exactly one "Discard unused lattice"
\* warning; with keep_unused true every key of lattices is in the output
\* exactly once; either way each key comes with its original child list.
C3_ReachableOrKept ==
    sort_pc \in {"done", "KeyError"} =>
        /\ sort_pc = "done"
        /\ \A i \in 1..Len(lattices_sorted) :
              lattices_sorted[i][2] = lattices[lattices_sorted[i][1]]
        /\ \A name \in SortedKeys : Cardinality(PlacesOf(name)) = 1
        /\ ~ keep_unused =>
              /\ SortedKeys = ReachedFrom({root})
              /\ \A name \in LatticeNames :
                    discarded[name] = IF name \in ReachedFrom({root}) THEN 0 ELSE 1
        /\ keep_unused =>
              /\ SortedKeys = LatticeNames
              /\ \A name \in LatticeNames : discarded[name] = 0

\* C10 as claimed: with a cycle reachable from root the call never returns.
C10_NeverReturns == CycleReachableFromRoot => sort_pc # "done"

\* C10 as amended: removing each name from the working set as it is entered
\* guards against cycles.  With a cycle reachable from root the call ends:
\* it returns its result, or, with keep_unused and a lattice out of reach of
\* root, it ends with the KeyError of lattices_set.pop() followed by remove.
C10_Returns ==
    CycleReachableFromRoot =>
        <>(\/ sort_pc = "done"
           \/ /\ sort_pc = "KeyError"
              /\ keep_unused
              /\ ReachedFrom({root}) # LatticeNames
              /\ lattices_sorted # <<>>)

\* C10 witness: a sort that returned although root lies on a cycle through
\* another lattice.
C10_Witness ==
    /\ sort_pc = "done"
    /\ OnCycle(root)
    /\ root \notin LatticeChildren(root)

(***************************************************************************)
(* Properties of the geometry reconciler.                                  *)
(***************************************************************************)
Called == geom_pc # "start"

\* The pairs the gap of which exceeded the tolerance, among the first i - 1.
GapsBefore(i) == {j \in 1..(i - 1) : s2l.gaps[j] > threshold}

\* drift_0, drift_1, ...: the name the k-th synthetic drift of a call is to get
drift_(k) == "drift_" \o ToString(k)

\* The synthetic names a call may hand out for a sequence of the bounded length.
SyntheticNames == {drift_(k) : k \in 0..MaxSeqLen}

\* The length that elements[elem] held when pair i looked it up: the gap of
\* the pair that synthesized a drift of that name earlier in the call, or
\* else the length the element came with.
LengthAt(i) ==
    LET made == {j \in GapsBefore(i) :
                    drift_(Cardinality(GapsBefore(j))) = sequence[i][1]}
    IN  IF made = {}
        THEN elements_before[sequence[i][1]].attrs.length
        ELSE s2l.gaps[CHOOSE j \in made : TRUE]

\* entrance position minus running exit position, for pair i
GapOf(i) == sequence[i][2] - LengthAt(i) \div 2 - s2l.exits[i]

\* len(elem_seq) once pair i was dealt with
OutLenAfter(i) ==
    IF i < s2l.processed THEN s2l.outlens[i + 1] ELSE Len(s2l.elem_seq)

\* C4: whenever seq2line returned and no input name is a synthetic drift
\* name, line2seq of its output is the input list: the same names in the
\* same order, each position within the tolerance of the original.  A
\* sequence is read as listing no element of type Drift (drifts are
\* implicit in a sequence, and line2seq emits none).
C4_RoundTrip ==
    (/\ geom_pc = "sequence"
     /\ \A i \in 1..Len(sequence) :
            /\ sequence[i][1] \notin SyntheticNames
            /\ elements_before[sequence[i][1]].type # "Drift")
        => /\ Len(seq_list) = Len(sequence)
           /\ \A i \in 1..Len(sequence) :
                /\ seq_list[i][1] = sequence[i][1]
                /\ Abs(seq_list[i][2] - sequence[i][2]) <= threshold

\* C5: a pair whose gap exceeds the tolerance gets exactly one synthetic
\* Drift of that length, named drift_k for the k-th such pair, placed right
\* before the element in the output; a pair whose |gap| is below the
\* tolerance gets the element alone; nothing else enters elements.
C5_DriftPerGap ==
    Called =>
        /\ \A i \in 1..s2l.processed :
            /\ s2l.gaps[i] = GapOf(i)
            /\ GapOf(i) > threshold =>
                LET new_drift == drift_(Cardinality(GapsBefore(i)))
                IN  /\ OutLenAfter(i) = s2l.outlens[i] + 2
                    /\ s2l.elem_seq[s2l.outlens[i] + 1] = new_drift
                    /\ s2l.elem_seq[s2l.outlens[i] + 2] = sequence[i][1]
                    /\ new_drift \in DOMAIN elements
                    /\ elements[new_drift] = [type |-> "Drift", attrs |-> [length |-> GapOf(i)]]
            /\ Abs(GapOf(i)) < threshold =>
                /\ OutLenAfter(i) = s2l.outlens[i] + 1
                /\ s2l.elem_seq[s2l.outlens[i] + 1] = sequence[i][1]
        /\ s2l.drift_nbr = Cardinality(GapsBefore(s2l.processed + 1))
        /\ DOMAIN elements =
              DOMAIN elements_before \cup {drift_(k) : k \in 0..(s2l.drift_nbr - 1)}
        /\ \A name \in DOMAIN elements_before :
              name \notin {drift_(k) : k \in 0..(s2l.drift_nbr - 1)}
                  => elements[name] = elements_before[name]

\* C5 witness: a call that synthesized drift_0 and drift_1 and returned.
C5_Witness ==
    /\ geom_pc = "line"
    /\ s2l.drift_nbr = 2
    /\ new_sequence = <<"drift_0", "A", "drift_1", "B">>

\* C6: the first pair whose gap is below minus the tolerance ends the call
\* with ElementsOverlapError(elem, pos) of that pair: nothing is returned
\* and no later pair is looked at; the call fails for no other pair.
C6_OverlapRaises ==
    Called =>
        /\ \A i \in 1..s2l.processed :
              GapOf(i) < -threshold
                  => /\ s2l.raised = sequence[i]
                     /\ s2l.processed = i
                     /\ geom_pc = "ElementsOverlapError"
                     /\ new_sequence = None
        /\ (s2l.raised # None \/ geom_pc = "ElementsOverlapError")
              => /\ s2l.processed >= 1
                 /\ GapOf(s2l.processed) < -threshold
        /\ s2l.raised = None => s2l.processed = Len(sequence)

\* C6 witness: the first of two pairs overlaps the origin and the second is
\* never reached.
C6_Witness ==
    /\ geom_pc = "ElementsOverlapError"
    /\ Len(sequence) = 2
    /\ s2l.processed = 1
    /\ s2l.raised = sequence[1]

\* elem_exit once pair i was dealt with
ExitAfter(i) ==
    IF i < s2l.processed THEN s2l.exits[i + 1] ELSE s2l.elem_exit

\* entrance position plus length, for pair i
ExitOf(i) == sequence[i][2] - LengthAt(i) \div 2 + LengthAt(i)

\* C11: whenever seq2line returns, every pair of the input has put its name
\* into the returned list, once and in input order (after its synthetic
\* drift, if it got one), and has advanced the running exit position to the
\* exit of its element, up to the tolerance; whatever the gap of the pair
\* is, a gap of magnitude exactly the tolerance included.
C11_EveryNameKept ==
    geom_pc \in {"line", "sequence"} =>
        /\ s2l.processed = Len(sequence)
        /\ \A i \in 1..Len(sequence) :
            /\ OutLenAfter(i) \in {s2l.outlens[i] + 1, s2l.outlens[i] + 2}
            /\ s2l.elem_seq[OutLenAfter(i)] = sequence[i][1]
            /\ Abs(ExitAfter(i) - ExitOf(i)) <= threshold
        /\ new_sequence = s2l.elem_seq

====
